---- MODULE Spec2Model ----
(***************************************************************************)
(* Model of govoltron/voltron: the client registry (ClientVarP), the       *)
(* orchestrator (Voltron.Join / Setup / Run / init / run), the service     *)
(* tasks launched by service.boot, and the discoveryWatcher that keeps a   *)
(* discovery-bound client's options and endpoints current.                 *)
(***************************************************************************)
EXTENDS Naturals, Sequences, FiniteSets, TLC

\* ------------------------------------------------------------------ bounds
MaxClients == 2
MaxServices == 2
\* number of broker events delivered, each on its own goroutine
MaxEvents == 2
\* length of the endpoint list the broker holds when a watcher is created
MaxSnapshot == 2
MaxCalls == 3
MaxRuns == 2

\* ------------------------------------------------------------------ values
Nil == "nil"
TheCluster == "cluster"

NoErr == [kind |-> "nil", idx |-> 0]
ErrInvalidCluster == [kind |-> "ErrInvalidCluster", idx |-> 0]
\* errors.New("invalid cluster") of initBroker: a distinct error value
ErrBrokerNoCluster(k) == [kind |-> "initBroker: invalid cluster", idx |-> k]
\* error returned by cluster.NewBroker for the k-th manifest entry
ErrNewBroker(k) == [kind |-> "NewBroker", idx |-> k]
\* error returned by the k-th client implementation's Init
ErrClientInit(k) == [kind |-> "Client.Init", idx |-> k]
\* error returned by the k-th service implementation's Init
ErrServiceInit(k) == [kind |-> "Service.Init", idx |-> k]

ClientKinds == {"static", "discovery"}
ClientRefs == {"valid", "nil", "nonpointer", "nilpointer"}
PanicInvalidRef == "expected variable pointer, and not nil"
PanicInvalidCluster == "invalid cluster"

\* ------------------------------------------------------- discovery values
EndpointIDs == {"e1", "e2"}
EndpointAddrs == {"a1", "a2"}
EndpointWeights == {1, 2}
\* matrix.Endpoint{ID, Addr, Weight}: for e1 a value, one that differs from it
\* in the address only and one that differs from it in the weight only; one
\* value for e2
Endpoints == {ep \in [id : EndpointIDs, addr : EndpointAddrs,
                       weight : EndpointWeights] :
                 /\ ep.addr = "a1" \/ ep.weight = 1
                 /\ ep.id = "e1" \/ (ep.addr = "a1" /\ ep.weight = 1)}
\* []byte of the "options" key; "" is the empty / nil slice
OptionValues == {"", "v1", "v2"}
EnvKeys == {"options", "other"}

\* an empty map[string]matrix.Endpoint
EmptyDirectory == [k \in {} |-> k]

\* w.endpoints[endpoint.ID] = endpoint
\* variant: the map is keyed by the endpoint's address
PutByAddr(dir, ep) ==
    [k \in DOMAIN dir \cup {ep.addr} |-> IF k = ep.addr THEN ep ELSE dir[k]]
PutEndpoint(dir, ep) ==
    [k \in DOMAIN dir \cup {ep.id} |-> IF k = ep.id THEN ep ELSE dir[k]]

\* delete(w.endpoints, id)
\* variant: the delete empties the map
ClearDirectory(dir, id) == EmptyDirectory
DeleteEndpoint(dir, id) == [k \in DOMAIN dir \ {id} |-> dir[k]]

\* discoveryWatcher.Init: for _, endpoint := range endpoints { w.endpoints[endpoint.ID] = endpoint }
RECURSIVE DirectoryOf(_)
DirectoryOf(list) ==
    IF list = << >> THEN EmptyDirectory
    ELSE PutEndpoint(DirectoryOf(SubSeq(list, 1, Len(list) - 1)), list[Len(list)])

\* reinit: the slice built by ranging over w.endpoints (iteration order is
\* unspecified, so the slice is compared as a set)
EndpointList(dir) == {dir[k] : k \in DOMAIN dir}

\* what the broker may hold when a watcher is created
StoreOptions == {"", "v1"}
SnapshotEndpoints == {ep \in Endpoints : ep.weight = 1}

\* a broker that holds no "options" key and no endpoint
EmptyStore == [options |-> "", endpoints |-> << >>]

\* ------------------------------------------------- built-in HTTP client

\* the two implementations of the client's readiness flag in the repository:
\* ready.Load() / ready.Store() and atomic.CompareAndSwapUint32(&c.ready, ..)
HttpImpls == {"loadstore", "cas"}

\* a zero Client value: no field assigned, not ready, no method called
NewHttp(impl) ==
    [impl |-> impl, ready |-> FALSE, conf |-> "none", endpoints |-> << >>,
     transport |-> FALSE, balancer |-> FALSE, inits |-> 0, shuts |-> 0,
     calls |-> << >>]

\* options of a type other than *ClientOptions
NoOpts == [valid |-> FALSE, conf |-> "none", endpoints |-> << >>]

\* Client.NewOptions(ctx, options, endpoints): Raw and the decoded fields come
\* from options, Endpoints is filled in the order of the list
NewOptions(options, list) ==
    [valid |-> TRUE, conf |-> options,
     endpoints |-> [i \in DOMAIN list |-> list[i].addr]]

\* the lists a range over a map with the values eps can build: Go fixes no order
Orders(eps) ==
    {l \in [1..Cardinality(eps) -> eps] : \A ep \in eps : \E i \in DOMAIN l : l[i] = ep}

\* Init's assignments: c.host, c.scheme, c.endpoints, c.client (and the
\* balancer, in the implementation that has one)
HttpAssign(h, opts) ==
    [h EXCEPT !.conf = opts.conf, !.endpoints = opts.endpoints,
              !.transport = TRUE, !.balancer = (h.impl = "cas"),
              !.inits = @ + 1]

\* variant: ReInit takes over the options' fields
HttpReInitApplies(h, opts) ==
    [h EXCEPT !.conf = opts.conf, !.endpoints = opts.endpoints]
\* Client.ReInit: return
HttpReInitEffect(h, opts) == h

VARIABLES
    manifest,      \* package variable manifest []*client: the registered records
    clients,       \* vol.clients: indices of manifest records, in append order
    services,      \* vol.services: the records appended by Setup
    cluster,       \* vol.cluster
    panicVal,      \* value of the last panic raised by Join / ClientVarP
    pc,            \* position of the goroutine that called Voltron.Run
    idx,           \* loop index of the for-range loop that goroutine is in
    ret,           \* err, the value Run returns
    shutdownDeferred, \* Run has registered its deferred client-Shutdown loop
    callerDone,    \* the context handed to Run has been cancelled by its owner
    runDone,       \* cancel() of Run's own context has been called
    innerDone,     \* cancel() of run's context has been called
    cancelAt,      \* when the tasks' context first became done: before/after close(signal)
    signalClosed,  \* close(signal) has happened
    wg,            \* sync.WaitGroup counter of run
    task,          \* per service: position of the goroutine started by boot
    cInit,         \* per manifest record: outcome of its iteration of init's loop
    cInitCount,    \* per manifest record: number of Init invocations
    sInit,         \* per service: state of the implementation's Init call
    sInitCount,    \* per service: number of Init invocations
    sRunCount,     \* per service: number of Run invocations
    shutLog,       \* manifest indices in the order client.Shutdown was invoked
    reporter,      \* per service: s.reporter != nil
    keepalives,    \* per service: number of reporter.Keepalive calls
    closes,        \* per service: number of reporter.Close calls
    watching,      \* ids of the watchers that were passed to broker.Watch
    watchers,      \* the discoveryWatcher objects, in order of creation
    store,         \* what the broker returns for Getenv("options") and Endpoints()
    handlers,      \* the broker's callback invocations, in order of delivery
    http,          \* a built-in HTTP client and the calls of its methods
    sCalls         \* per service: the methods of the implementation invoked so far

vars == << manifest, clients, services, cluster, panicVal, pc, idx, ret,
           shutdownDeferred, callerDone, runDone, innerDone, cancelAt,
           signalClosed, wg, task, cInit, cInitCount, sInit, sInitCount,
           sRunCount, shutLog, reporter, keepalives, closes, watching,
           watchers, store, handlers, http, sCalls >>

regVars == << manifest, cInit, cInitCount >>
svcVars == << services, task, sInit, sInitCount, sRunCount, reporter,
              keepalives, closes >>
ctxVars == << callerDone, runDone, innerDone, cancelAt >>
wVars == << watchers, store, handlers >>

\* the methods a service implementation has been asked to execute, from the
\* reporter it was given and the counts of its Init and Run invocations
CountedCalls(j) ==
    (IF reporter[j] THEN {"Name"} ELSE {})
    \cup (IF sInitCount[j] > 0 THEN {"Init"} ELSE {})
    \cup (IF sRunCount[j] > 0 THEN {"Run"} ELSE {})

Init ==
    /\ manifest = << >>
    /\ clients = << >>
    /\ services = << >>
    /\ cluster = Nil
    /\ panicVal = Nil
    /\ pc = "idle"
    /\ idx = 0
    /\ ret = NoErr
    /\ shutdownDeferred = FALSE
    /\ callerDone = FALSE
    /\ runDone = FALSE
    /\ innerDone = FALSE
    /\ cancelAt = "never"
    /\ signalClosed = FALSE
    /\ wg = 0
    /\ task = << >>
    /\ cInit = << >>
    /\ cInitCount = << >>
    /\ sInit = << >>
    /\ sInitCount = << >>
    /\ sRunCount = << >>
    /\ shutLog = << >>
    /\ reporter = << >>
    /\ keepalives = << >>
    /\ closes = << >>
    /\ watching = {}
    /\ watchers = << >>
    /\ store = EmptyStore
    /\ handlers = << >>
    /\ http = NewHttp("loadstore")
    /\ sCalls = [j \in DOMAIN services |-> CountedCalls(j)]

\* ------------------------------------------------------------ registration

\* variant: the guard tests cliptr == nil only
InvalidRefNilOnly(ref) == ref = "nil"
\* ClientVarP's guard: cliptr == nil || rv.Kind() != reflect.Pointer || rv.IsNil()
InvalidRef(ref) == ref # "valid"

\* ClientVarP(cliptr, opts, description)
ClientVarP(ref, kind) ==
    /\ pc = "idle"
    /\ IF InvalidRef(ref)
       THEN /\ panicVal' = PanicInvalidRef
            /\ UNCHANGED regVars
       ELSE /\ Len(manifest) < MaxClients
            /\ manifest' = Append(manifest, [kind |-> kind, ref |-> ref])
            /\ cInit' = Append(cInit, "none")
            /\ cInitCount' = Append(cInitCount, 0)
            /\ UNCHANGED panicVal
    /\ UNCHANGED << clients, cluster, pc, idx, ret, shutdownDeferred, ctxVars,
                    signalClosed, wg, svcVars, shutLog, watching, wVars, http, sCalls >>

\* Voltron.Setup(srv, description, opts...); report = WithAutoReport given
Setup(report) ==
    /\ pc = "idle"
    /\ Len(services) < MaxServices
    /\ services' = Append(services, [report |-> report])
    /\ task' = Append(task, "none")
    /\ sInit' = Append(sInit, "none")
    /\ sInitCount' = Append(sInitCount, 0)
    /\ sRunCount' = Append(sRunCount, 0)
    /\ reporter' = Append(reporter, FALSE)
    /\ keepalives' = Append(keepalives, 0)
    /\ closes' = Append(closes, 0)
    /\ sCalls' = Append(sCalls, {})
    /\ UNCHANGED << regVars, clients, cluster, panicVal, pc, idx, ret,
                    shutdownDeferred, ctxVars, signalClosed, wg, shutLog,
                    watching, wVars, http >>

\* Voltron.Join(cluster)
Join(c) ==
    /\ pc = "idle"
    /\ IF c = Nil
       THEN /\ panicVal' = PanicInvalidCluster
            /\ UNCHANGED cluster
       ELSE /\ cluster' = c
            /\ UNCHANGED panicVal
    /\ UNCHANGED << regVars, svcVars, clients, pc, idx, ret, shutdownDeferred,
                    ctxVars, signalClosed, wg, shutLog, watching, wVars, http, sCalls >>

\* ------------------------------------------------------------------ contexts

\* ctx.Done() of the context the service tasks select on: run's context is a
\* child of Run's context, which is a child of the caller's context.
TaskCtxDone == callerDone \/ runDone \/ innerDone

\* variant: a goroutine blocked in the select is never woken
NoWake(to) == task
\* a goroutine blocked in the select of boot is woken by the first channel that
\* becomes ready and takes that case
Wake(to) == [j \in DOMAIN task |-> IF task[j] = "parked" THEN to ELSE task[j]]

\* the first cancellation the tasks can observe, relative to close(signal)
MarkCancel == IF cancelAt # "never" THEN cancelAt
              ELSE IF signalClosed THEN "after" ELSE "before"

\* the owner of the context passed to Run cancels it while Run is executing
CancelCtx ==
    /\ pc \notin {"idle", "done"}
    /\ ~callerDone
    /\ callerDone' = TRUE
    /\ cancelAt' = MarkCancel
    /\ task' = IF TaskCtxDone THEN task ELSE Wake("cancelled")
    /\ UNCHANGED << regVars, clients, services, cluster, panicVal, pc, idx, ret,
                    shutdownDeferred, runDone, innerDone, signalClosed, wg,
                    sInit, sInitCount, sRunCount, shutLog, reporter,
                    keepalives, closes, watching, wVars, http, sCalls >>

\* ---------------------------------------------------------------- Voltron.Run

\* variant of ClusterMissing: Run without the cluster check
ClusterCheckSkipped == FALSE

\* Run: if vol.cluster == nil
ClusterMissing == cluster = Nil

\* Run, up to the call of vol.init
RunCall ==
    /\ pc = "idle"
    /\ IF ClusterMissing
       THEN /\ ret' = ErrInvalidCluster
            /\ pc' = "done"
            /\ UNCHANGED idx
       ELSE /\ pc' = "init"
            /\ idx' = 1
            /\ UNCHANGED ret
    /\ UNCHANGED << regVars, svcVars, clients, cluster, panicVal,
                    shutdownDeferred, ctxVars, signalClosed, wg, shutLog,
                    watching, wVars, http, sCalls >>

\* variant of InitLoopHasNext: the loop stops one record early
InitLoopSkipsLast(k) == k < Len(manifest)

\* init: for _, c := range manifest
InitLoopHasNext(k) == k <= Len(manifest)

\* init: c.options.(*DiscoveryOptions)
IsDiscovery(k) == manifest[k].kind = "discovery"

\* variants of InitFailed / PrepareFailed: the error is not checked
InitErrorIgnored(err) == FALSE
PrepareErrorIgnored(err) == FALSE

\* init / Prepare: if err != nil { return }
InitFailed(err) == err # NoErr
PrepareFailed(err) == err # NoErr

\* InitWithDiscovery / discoveryWatcher.Init up to the call of the
\* implementation's Init: w.options and w.endpoints are read from the broker;
\* Init is called with the broker's endpoint list itself
NewWatcher(k) ==
    [client |-> k,
     options |-> store.options,
     endpoints |-> DirectoryOf(store.endpoints),
     writer |-> 0,
     initArgs |-> [options |-> store.options, endpoints |-> store.endpoints]]

\* variant: discoveryWatcher.Init calls broker.Watch(w) at once
WatchedAtOnce(w) == {w}
\* discoveryWatcher.Init defers broker.Watch(w): the watchers it has registered
\* when it calls the implementation's Init
WatchedBeforeInit(w) == {}

\* init, one iteration up to the call of the implementation's Init; for a
\* discovery-bound record initBroker runs first and may fail, then
\* InitWithDiscovery creates the watcher and discoveryWatcher.Init fills it
ClientInitCall(brokerOk) ==
    /\ pc = "init"
    /\ InitLoopHasNext(idx)
    /\ LET broken == IF ~IsDiscovery(idx) THEN NoErr
                     ELSE IF cluster = Nil THEN ErrBrokerNoCluster(idx)
                     ELSE IF brokerOk THEN NoErr ELSE ErrNewBroker(idx)
       IN IF broken # NoErr
          THEN /\ ret' = broken
               /\ pc' = "return"
               /\ cInit' = [cInit EXCEPT ![idx] = "nobroker"]
               /\ UNCHANGED << cInitCount, watchers, watching >>
          ELSE /\ cInit' = [cInit EXCEPT ![idx] = "pending"]
               /\ cInitCount' = [cInitCount EXCEPT ![idx] = @ + 1]
               /\ watchers' = IF IsDiscovery(idx)
                               THEN Append(watchers, NewWatcher(idx))
                               ELSE watchers
               /\ watching' = IF IsDiscovery(idx)
                               THEN watching \cup WatchedBeforeInit(Len(watchers) + 1)
                               ELSE watching
               /\ pc' = "cinit"
               /\ UNCHANGED ret
    /\ UNCHANGED << manifest, svcVars, clients, cluster, panicVal, idx,
                    shutdownDeferred, ctxVars, signalClosed, wg, shutLog,
                    store, handlers, http, sCalls >>

\* variant: the watcher is registered only when Init returned nil
WatchedOnSuccess(w, ok) == IF ok THEN {w} ELSE {}
\* discoveryWatcher.Init's deferred function: the watchers it registers when
\* the implementation's Init has returned nil (ok) or an error
WatchedOnReturn(w, ok) == {w}

\* the implementation's Init returns; discoveryWatcher.Init's deferred
\* broker.Watch(w) runs; init appends the record or returns the error
ClientInitReturn(ok) ==
    /\ pc = "cinit"
    /\ LET err == IF ok THEN NoErr ELSE ErrClientInit(idx)
       IN /\ cInit' = [cInit EXCEPT ![idx] = IF ok THEN "ok" ELSE "err"]
          /\ watching' = IF IsDiscovery(idx)
                          THEN watching \cup WatchedOnReturn(Len(watchers), ok)
                          ELSE watching
          /\ IF InitFailed(err)
             THEN /\ ret' = err
                  /\ pc' = "return"
                  /\ UNCHANGED << clients, idx >>
             ELSE /\ clients' = Append(clients, idx)
                  /\ idx' = idx + 1
                  /\ pc' = "init"
                  /\ UNCHANGED ret
    /\ UNCHANGED << manifest, cInitCount, svcVars, cluster, panicVal,
                    shutdownDeferred, ctxVars, signalClosed, wg, shutLog,
                    wVars, http, sCalls >>

\* init returned nil: Run registers the deferred Shutdown loop and calls run
InitDone ==
    /\ pc = "init"
    /\ ~InitLoopHasNext(idx)
    /\ shutdownDeferred' = TRUE
    /\ pc' = "prepare"
    /\ idx' = 1
    /\ UNCHANGED << regVars, svcVars, clients, cluster, panicVal, ret, ctxVars,
                    signalClosed, wg, shutLog, watching, wVars, http, sCalls >>

\* ---------------------------------------------------------------- Voltron.run

\* run: for _, s := range vol.services
PrepareLoopHasNext(k) == k <= Len(services)

\* run: if s.addr != ""
WantsReporter(k) == services[k].report

\* variant: Run's deferred loop also shuts the services down
InvokesWithShutdown(step) ==
    CASE step = "NewReporter" -> {"Name"}
      [] step = "Prepare" -> {"Init"}
      [] step = "boot" -> {"Run"}
      [] step = "teardown" -> {"Shutdown"}
      [] OTHER -> {}

\* the methods of a service implementation invoked at a step of Run: s.Name()
\* for NewReporter in run, s.rt.Init in Prepare, s.rt.Run in the goroutine of
\* boot; none when that goroutine returns or in Run's deferred functions
Invokes(step) ==
    CASE step = "NewReporter" -> {"Name"}
      [] step = "Prepare" -> {"Init"}
      [] step = "boot" -> {"Run"}
      [] OTHER -> {}

\* run, one iteration up to Prepare's call of the implementation's Init
ServiceInitCall ==
    /\ pc = "prepare"
    /\ PrepareLoopHasNext(idx)
    /\ reporter' = [reporter EXCEPT ![idx] = @ \/ WantsReporter(idx)]
    /\ sInit' = [sInit EXCEPT ![idx] = "pending"]
    /\ sInitCount' = [sInitCount EXCEPT ![idx] = @ + 1]
    /\ sCalls' = [sCalls EXCEPT ![idx] =
                    @ \cup (IF WantsReporter(idx) THEN Invokes("NewReporter")
                                                 ELSE {})
                      \cup Invokes("Prepare")]
    /\ pc' = "sinit"
    /\ UNCHANGED << regVars, services, task, sRunCount, keepalives, closes,
                    clients, cluster, panicVal, idx, ret, shutdownDeferred,
                    ctxVars, signalClosed, wg, shutLog, watching, wVars, http >>

\* the implementation's Init returns: Prepare returns the error, or boot does
\* wg.Add(1) and starts the goroutine
ServiceInitReturn(ok) ==
    /\ pc = "sinit"
    /\ LET err == IF ok THEN NoErr ELSE ErrServiceInit(idx)
       IN /\ sInit' = [sInit EXCEPT ![idx] = IF ok THEN "ok" ELSE "err"]
          /\ IF PrepareFailed(err)
             THEN /\ ret' = err
                  /\ pc' = "cancel"
                  /\ UNCHANGED << wg, task, idx >>
             ELSE /\ wg' = wg + 1
                  /\ task' = [task EXCEPT ![idx] = "spawned"]
                  /\ idx' = idx + 1
                  /\ pc' = "prepare"
                  /\ UNCHANGED ret
    /\ UNCHANGED << regVars, services, sInitCount, sRunCount, reporter,
                    keepalives, closes, clients, cluster, panicVal,
                    shutdownDeferred, ctxVars, signalClosed, shutLog, watching, wVars, http, sCalls >>

\* run: gogo(), i.e. close(signal), after the Prepare loop
Gogo ==
    /\ pc = "prepare"
    /\ ~PrepareLoopHasNext(idx)
    /\ signalClosed' = TRUE
    /\ task' = Wake("go")
    /\ pc' = "wait"
    /\ UNCHANGED << regVars, services, sInit, sInitCount, sRunCount, reporter,
                    keepalives, closes, clients, cluster, panicVal, idx, ret,
                    shutdownDeferred, ctxVars, wg, shutLog, watching, wVars, http, sCalls >>

\* run: wg.Wait() returns
WaitReturns == wg = 0

Wait ==
    /\ pc = "wait"
    /\ WaitReturns
    /\ pc' = "cancel"
    /\ UNCHANGED << regVars, svcVars, clients, cluster, panicVal, idx, ret,
                    shutdownDeferred, ctxVars, signalClosed, wg, shutLog,
                    watching, wVars, http, sCalls >>

\* run's deferred cancel(); then run returns into Run's deferred functions
CancelInner ==
    /\ pc = "cancel"
    /\ innerDone' = TRUE
    /\ cancelAt' = MarkCancel
    /\ task' = IF TaskCtxDone THEN task ELSE Wake("cancelled")
    /\ pc' = IF shutdownDeferred THEN "teardown" ELSE "return"
    /\ idx' = 1
    /\ UNCHANGED << regVars, services, sInit, sInitCount, sRunCount, reporter,
                    keepalives, closes, clients, cluster, panicVal, ret,
                    shutdownDeferred, callerDone, runDone, signalClosed, wg,
                    shutLog, watching, wVars, http, sCalls >>

\* Run's deferred loop: for _, c := range vol.clients
TeardownHasNext(k) == k <= Len(clients)

\* variant of ShutdownTarget: the loop walks vol.clients backwards
ShutdownTargetReversed(k) == clients[Len(clients) + 1 - k]

\* the record the k-th iteration of that loop shuts down
ShutdownTarget(k) == clients[k]

\* one iteration: c.Shutdown(ctx)
ClientShutdown ==
    /\ pc = "teardown"
    /\ TeardownHasNext(idx)
    /\ shutLog' = Append(shutLog, ShutdownTarget(idx))
    /\ idx' = idx + 1
    /\ UNCHANGED << regVars, svcVars, clients, cluster, panicVal, pc, ret,
                    shutdownDeferred, ctxVars, signalClosed, wg, watching, wVars, http, sCalls >>

\* the deferred loop is over: Run has no further deferred call but cancel()
TeardownDone ==
    /\ pc = "teardown"
    /\ ~TeardownHasNext(idx)
    /\ sCalls' = [j \in DOMAIN sCalls |-> sCalls[j] \cup Invokes("teardown")]
    /\ pc' = "return"
    /\ UNCHANGED << regVars, svcVars, clients, cluster, panicVal, idx, ret,
                    shutdownDeferred, ctxVars, signalClosed, wg, shutLog,
                    watching, wVars, http >>

\* Run's deferred cancel(), then Run returns ret to its caller
RunReturn ==
    /\ pc = "return"
    /\ runDone' = TRUE
    /\ cancelAt' = MarkCancel
    /\ task' = IF TaskCtxDone THEN task ELSE Wake("cancelled")
    /\ pc' = "done"
    /\ UNCHANGED << regVars, services, sInit, sInitCount, sRunCount, reporter,
                    keepalives, closes, clients, cluster, panicVal, idx, ret,
                    shutdownDeferred, callerDone, innerDone, signalClosed, wg,
                    shutLog, watching, wVars, http, sCalls >>

\* --------------------------------------------------------------- service.boot

\* boot's select: case <-ctx.Done()
CtxReady == TaskCtxDone

\* variant of SignalReady: the goroutine does not wait for close(signal)
SignalReadyAlways == TRUE

\* boot's select: case <-signal
SignalReady == signalClosed

\* the cases the select statement can take; with both channels ready Go picks
\* one of them pseudo-randomly, with none ready the goroutine blocks
SelectOutcomes ==
    IF CtxReady /\ SignalReady THEN {"cancelled", "go"}
    ELSE IF CtxReady THEN {"cancelled"}
    ELSE IF SignalReady THEN {"go"}
    ELSE {"parked"}

\* the goroutine of service j reaches the select statement
TaskSelect(j) ==
    /\ task[j] = "spawned"
    /\ \E o \in SelectOutcomes : task' = [task EXCEPT ![j] = o]
    /\ UNCHANGED << regVars, services, sInit, sInitCount, sRunCount, reporter,
                    keepalives, closes, clients, cluster, panicVal, pc, idx,
                    ret, shutdownDeferred, ctxVars, signalClosed, wg, shutLog,
                    watching, wVars, http, sCalls >>

\* variant: boot never uses the reporter
ReporterUnused(j) == FALSE
\* boot: if s.reporter != nil
HasReporter(j) == reporter[j]

\* boot: s.reporter.Keepalive(s.addr, s.weight, s.ttl); defer s.reporter.Close(ctx)
TaskKeepalive(j) ==
    /\ task[j] = "go"
    /\ HasReporter(j)
    /\ keepalives' = [keepalives EXCEPT ![j] = @ + 1]
    /\ task' = [task EXCEPT ![j] = "kept"]
    /\ UNCHANGED << regVars, services, sInit, sInitCount, sRunCount, reporter,
                    closes, clients, cluster, panicVal, pc, idx, ret,
                    shutdownDeferred, ctxVars, signalClosed, wg, shutLog,
                    watching, wVars, http, sCalls >>

\* boot: s.rt.Run(ctx) is invoked
TaskRun(j) ==
    /\ \/ task[j] = "go" /\ ~HasReporter(j)
       \/ task[j] = "kept"
    /\ sRunCount' = [sRunCount EXCEPT ![j] = @ + 1]
    /\ sCalls' = [sCalls EXCEPT ![j] = @ \cup Invokes("boot")]
    /\ task' = [task EXCEPT ![j] = "running"]
    /\ UNCHANGED << regVars, services, sInit, sInitCount, reporter, keepalives,
                    closes, clients, cluster, panicVal, pc, idx, ret,
                    shutdownDeferred, ctxVars, signalClosed, wg, shutLog,
                    watching, wVars, http >>

\* the implementation's Run returns
TaskRunReturn(j) ==
    /\ task[j] = "running"
    /\ task' = [task EXCEPT ![j] = "ran"]
    /\ UNCHANGED << regVars, services, sInit, sInitCount, sRunCount, reporter,
                    keepalives, closes, clients, cluster, panicVal, pc, idx,
                    ret, shutdownDeferred, ctxVars, signalClosed, wg, shutLog,
                    watching, wVars, http, sCalls >>

\* the goroutine returns: the deferred reporter.Close (registered only on the
\* path through Keepalive), then the deferred wg.Done()
TaskExit(j) ==
    /\ task[j] \in {"ran", "cancelled"}
    /\ closes' = [closes EXCEPT ![j] =
                    IF task[j] = "ran" /\ HasReporter(j) THEN @ + 1 ELSE @]
    /\ wg' = wg - 1
    /\ sCalls' = [sCalls EXCEPT ![j] = @ \cup Invokes("return")]
    /\ task' = [task EXCEPT ![j] = "exited"]
    /\ UNCHANGED << regVars, services, sInit, sInitCount, sRunCount, reporter,
                    keepalives, clients, cluster, panicVal, pc, idx, ret,
                    shutdownDeferred, ctxVars, signalClosed, shutLog, watching,
                    wVars, http >>

\* ------------------------------------------------------------- specification

Next ==
    \/ \E ref \in ClientRefs, kind \in ClientKinds : ClientVarP(ref, kind)
    \/ \E report \in BOOLEAN : Setup(report)
    \/ \E c \in {Nil, TheCluster} : Join(c)
    \/ CancelCtx
    \/ RunCall
    \/ \E brokerOk \in BOOLEAN : ClientInitCall(brokerOk)
    \/ \E ok \in BOOLEAN : ClientInitReturn(ok)
    \/ InitDone
    \/ ServiceInitCall
    \/ \E ok \in BOOLEAN : ServiceInitReturn(ok)
    \/ Gogo
    \/ Wait
    \/ CancelInner
    \/ ClientShutdown
    \/ TeardownDone
    \/ RunReturn
    \/ \E j \in DOMAIN task : TaskSelect(j)
    \/ \E j \in DOMAIN task : TaskKeepalive(j)
    \/ \E j \in DOMAIN task : TaskRun(j)
    \/ \E j \in DOMAIN task : TaskRunReturn(j)
    \/ \E j \in DOMAIN task : TaskExit(j)

Spec == Init /\ [][Next]_vars

\* the next step of the goroutine that executes Run; every call it makes into a
\* client or service implementation returns
RunStep ==
    \/ \E brokerOk \in BOOLEAN : ClientInitCall(brokerOk)
    \/ \E ok \in BOOLEAN : ClientInitReturn(ok)
    \/ InitDone
    \/ ServiceInitCall
    \/ \E ok \in BOOLEAN : ServiceInitReturn(ok)
    \/ Gogo
    \/ Wait
    \/ CancelInner
    \/ ClientShutdown
    \/ TeardownDone
    \/ RunReturn

\* the next step of the goroutine boot started for service j; the
\* implementation's Run returns
TaskStep(j) ==
    /\ j \in DOMAIN task
    /\ \/ TaskSelect(j)
       \/ TaskKeepalive(j)
       \/ TaskRun(j)
       \/ TaskRunReturn(j)
       \/ TaskExit(j)

\* the programs whose registration calls do not panic
NextLive ==
    \/ \E kind \in ClientKinds : ClientVarP("valid", kind)
    \/ \E report \in BOOLEAN : Setup(report)
    \/ Join(TheCluster)
    \/ CancelCtx
    \/ RunCall
    \/ RunStep
    \/ \E j \in DOMAIN task : TaskStep(j)

\* the Go scheduler lets every goroutine that can take a step take it
SpecLive ==
    /\ Init
    /\ [][NextLive]_vars
    /\ WF_vars(RunStep)
    /\ \A j \in 1..MaxServices : WF_vars(TaskStep(j))

\* ----------------------------------------------------------- discoveryWatcher

NoEndpoint == [id |-> "", addr |-> "", weight |-> 0]
\* the callbacks of matrix.BrokerWatcher with their arguments
SetenvEvents == {e \in [type : {"setenv"}, key : EnvKeys,
                        value : OptionValues \ {""}, ep : {NoEndpoint}] :
                    e.key = "options" \/ e.value = "v1"}
DelenvEvents == [type : {"delenv"}, key : EnvKeys, value : {""}, ep : {NoEndpoint}]
UpdateEvents == [type : {"update"}, key : {""}, value : {""}, ep : Endpoints]
DeleteEvents == [type : {"delete"}, key : {""}, value : {""},
                 ep : [id : EndpointIDs, addr : {""}, weight : {0}]]
Events == SetenvEvents \cup DelenvEvents \cup UpdateEvents \cup DeleteEvents

\* the DiscoveryState of watcher w: w.options and w.endpoints
StateOf(w) == [options |-> watchers[w].options, endpoints |-> watchers[w].endpoints]
NoState == [options |-> "", endpoints |-> EmptyDirectory]
NoArgs == [options |-> "", endpoints |-> {}]

\* client.Shutdown has been called on manifest record k
ShutDown(k) == \E i \in DOMAIN shutLog : shutLog[i] = k

\* the record of a callback invocation that has returned keeps only the
\* callback's type, how it ended, how many times it called ReInit and whether
\* it was delivered after its client's Shutdown
Returned(hr, outcome) ==
    [w |-> hr.w,
     ev |-> [type |-> hr.ev.type, key |-> "", value |-> "", ep |-> NoEndpoint],
     pc |-> "done", outcome |-> outcome, calls |-> hr.calls, late |-> hr.late,
     pre |-> NoState, post |-> NoState, args |-> NoArgs]

\* variant: no test of the key
AnyKey(key) == TRUE
\* OnSetenv / OnDelenv: if key == "options"
IsOptionsKey(key) == key = "options"

\* variant: the test compares the address only
SameAddrCached(dir, ep) ==
    /\ ep.id \in DOMAIN dir
    /\ dir[ep.id].addr = ep.addr
\* OnUpdateEndpoint: ep, ok := w.endpoints[endpoint.ID]; ok &&
\* ep.Addr == endpoint.Addr && ep.Weight == endpoint.Weight
SameEndpointCached(dir, ep) ==
    /\ ep.id \in DOMAIN dir
    /\ dir[ep.id].addr = ep.addr
    /\ dir[ep.id].weight = ep.weight

\* OnDeleteEndpoint: _, ok := w.endpoints[id]; !ok
NotCached(dir, id) == id \notin DOMAIN dir

\* variant: w.mu excludes nobody
WriteLockAlwaysFree(w) == TRUE
\* w.mu.RLock() / w.mu.Lock() can be taken: no goroutine holds w.mu.Lock()
WriteLockFree(w) == watchers[w].writer = 0

\* variant: the endpoint callbacks take w.mu.Lock() without a test
BeforeLockNoTest(dir, ev) ==
    IF ev.type \in {"setenv", "delenv"}
    THEN IF IsOptionsKey(ev.key) THEN "proceed" ELSE "ignored"
    ELSE "proceed"
\* how the part of a callback before w.mu.Lock() ends: the key test of
\* OnSetenv and OnDelenv, the test OnUpdateEndpoint and OnDeleteEndpoint make
\* on w.endpoints between w.mu.RLock() and w.mu.RUnlock()
BeforeLock(dir, ev) ==
    IF ev.type \in {"setenv", "delenv"}
    THEN IF IsOptionsKey(ev.key) THEN "proceed" ELSE "ignored"
    ELSE IF ev.type = "update"
    THEN IF SameEndpointCached(dir, ev.ep) THEN "noop" ELSE "proceed"
    ELSE IF NotCached(dir, ev.ep.id) THEN "noop" ELSE "proceed"

\* the broker invokes a callback of a watcher registered with broker.Watch, on
\* a goroutine of its own; the step is the callback up to its return or to its
\* w.mu.Lock(). OnUpdateEndpoint and OnDeleteEndpoint read w.endpoints under
\* w.mu.RLock(), i.e. at an instant at which no writer holds the lock.
Deliver(w, ev) ==
    /\ Len(handlers) < MaxEvents
    /\ w \in watching
    /\ ev.type \in {"update", "delete"} => WriteLockFree(w)
    /\ LET out == BeforeLock(watchers[w].endpoints, ev)
           hr == [w |-> w, ev |-> ev, pc |-> "wantlock", outcome |-> "none",
                  calls |-> 0, late |-> ShutDown(watchers[w].client),
                  pre |-> NoState, post |-> NoState, args |-> NoArgs]
       IN handlers' = Append(handlers,
             IF out = "proceed" THEN hr ELSE Returned(hr, out))
    /\ UNCHANGED << regVars, svcVars, clients, cluster, panicVal, pc, idx, ret,
                    shutdownDeferred, ctxVars, signalClosed, wg, shutLog,
                    watching, watchers, store, http, sCalls >>

\* the assignment each callback makes under w.mu.Lock()
Mutate(wr, ev) ==
    IF ev.type = "setenv" THEN [wr EXCEPT !.options = ev.value]
    ELSE IF ev.type = "delenv" THEN [wr EXCEPT !.options = ""]
    ELSE IF ev.type = "update"
         THEN [wr EXCEPT !.endpoints = PutEndpoint(wr.endpoints, ev.ep)]
    ELSE [wr EXCEPT !.endpoints = DeleteEndpoint(wr.endpoints, ev.ep.id)]

\* w.mu.Lock() followed by the callback's assignment
LockApply(h) ==
    /\ handlers[h].pc = "wantlock"
    /\ LET w == handlers[h].w
           wr == [Mutate(watchers[w], handlers[h].ev) EXCEPT !.writer = h]
       IN /\ WriteLockFree(w)
          /\ watchers' = [watchers EXCEPT ![w] = wr]
          /\ handlers' = [handlers EXCEPT
                ![h].pc = "locked",
                ![h].pre = StateOf(w),
                ![h].post = [options |-> wr.options, endpoints |-> wr.endpoints]]
    /\ UNCHANGED << regVars, svcVars, clients, cluster, panicVal, pc, idx, ret,
                    shutdownDeferred, ctxVars, signalClosed, wg, shutLog,
                    watching, store, http, sCalls >>

\* variant: reinit passes the endpoint list Init read from the broker
ReinitArgsFromInit(w) ==
    [options |-> watchers[w].options,
     endpoints |-> {watchers[w].initArgs.endpoints[k] :
                       k \in DOMAIN watchers[w].initArgs.endpoints}]
\* reinit: NewOptions(ctx, w.options, endpoints) with endpoints ranged from w.endpoints
ReinitArgs(w) ==
    [options |-> watchers[w].options,
     endpoints |-> EndpointList(watchers[w].endpoints)]

\* reinit up to the call of w.c.rt.ReInit
ReinitStep(h) ==
    /\ handlers[h].pc = "locked"
    /\ handlers' = [handlers EXCEPT ![h].pc = "reinit",
                                    ![h].calls = @ + 1,
                                    ![h].args = ReinitArgs(handlers[h].w)]
    /\ UNCHANGED << regVars, svcVars, clients, cluster, panicVal, pc, idx, ret,
                    shutdownDeferred, ctxVars, signalClosed, wg, shutLog,
                    watching, watchers, store, sCalls >>

\* reinit calls the implementation's ReInit
ReinitCall(h) ==
    /\ ReinitStep(h)
    /\ UNCHANGED http

\* reinit of a watcher whose client is the built-in HTTP client: the options
\* come from its NewOptions, the call is its ReInit
HttpReinitCall(h) ==
    /\ ReinitStep(h)
    /\ \E list \in Orders(ReinitArgs(handlers[h].w).endpoints) :
          http' = HttpReInitEffect(http,
                     NewOptions(ReinitArgs(handlers[h].w).options, list))

\* variant: the callback restores the state it found when ReInit fails
RollbackOnError(wr, hr, ok) ==
    IF ok THEN [wr EXCEPT !.writer = 0]
    ELSE [wr EXCEPT !.writer = 0, !.options = hr.pre.options,
                    !.endpoints = hr.pre.endpoints]
\* the watcher after w.reinit() has returned in a callback: the result is
\* dropped, the deferred w.mu.Unlock() runs
AfterReinit(wr, hr, ok) == [wr EXCEPT !.writer = 0]

\* ReInit returns and the callback with it
ReinitReturn(h, ok) ==
    /\ handlers[h].pc = "reinit"
    /\ handlers' = [handlers EXCEPT
          ![h] = Returned(@, IF ok THEN "applied" ELSE "failed")]
    /\ watchers' = [watchers EXCEPT
          ![handlers[h].w] = AfterReinit(@, handlers[h], ok)]
    /\ UNCHANGED << regVars, svcVars, clients, cluster, panicVal, pc, idx, ret,
                    shutdownDeferred, ctxVars, signalClosed, wg, shutLog,
                    watching, store, http, sCalls >>

\* the broker's content when the watcher is created
Snapshots == UNION {[1..n -> SnapshotEndpoints] : n \in 0..MaxSnapshot}
Stores == [options : StoreOptions, endpoints : Snapshots]

\* the steady state in which discovery events arrive: one discovery-bound
\* client was registered and initialized from a broker holding any options
\* value and endpoint list, its watcher is registered, and Run waits for the
\* one service, which is running
WatchStart ==
    /\ store \in Stores
    /\ manifest = << [kind |-> "discovery", ref |-> "valid"] >>
    /\ cInit = << "ok" >>
    /\ cInitCount = << 1 >>
    /\ clients = << 1 >>
    /\ services = << [report |-> FALSE] >>
    /\ cluster = TheCluster
    /\ panicVal = Nil
    /\ pc = "wait"
    /\ idx = 2
    /\ ret = NoErr
    /\ shutdownDeferred = TRUE
    /\ callerDone = FALSE
    /\ runDone = FALSE
    /\ innerDone = FALSE
    /\ cancelAt = "never"
    /\ signalClosed = TRUE
    /\ wg = 1
    /\ task = << "running" >>
    /\ sInit = << "ok" >>
    /\ sInitCount = << 1 >>
    /\ sRunCount = << 1 >>
    /\ shutLog = << >>
    /\ reporter = << FALSE >>
    /\ keepalives = << 0 >>
    /\ closes = << 0 >>
    /\ watching = {1}
    /\ watchers = << NewWatcher(1) >>
    /\ handlers = << >>
    /\ sCalls = [j \in DOMAIN services |-> CountedCalls(j)]

\* the client of the watcher is not the built-in one, which stays unused
InitWatch ==
    /\ WatchStart
    /\ http = NewHttp("loadstore")

NextWatch ==
    \/ \E w \in DOMAIN watchers, ev \in Events : Deliver(w, ev)
    \/ \E h \in DOMAIN handlers : LockApply(h)
    \/ \E h \in DOMAIN handlers : ReinitCall(h)
    \/ \E h \in DOMAIN handlers, ok \in BOOLEAN : ReinitReturn(h, ok)

SpecWatch == InitWatch /\ [][NextWatch]_vars

\* the built-in HTTP client after the Init call of discoveryWatcher.Init
HttpFirstInit(impl, w) ==
    [HttpAssign(NewHttp(impl),
                NewOptions(watchers[w].initArgs.options,
                           watchers[w].initArgs.endpoints))
        EXCEPT !.ready = TRUE]

\* the same steady state with a built-in HTTP client as the watcher's client
InitHttpWatch ==
    /\ WatchStart
    /\ \E impl \in HttpImpls : http = HttpFirstInit(impl, 1)

\* the events that can change what reinit passes to ReInit
HttpWatchEvents == {ev \in Events : ev.type = "setenv" => ev.key = "options"} \ DelenvEvents

\* its ReInit returns nil
NextHttpWatch ==
    \/ \E w \in DOMAIN watchers, ev \in HttpWatchEvents : Deliver(w, ev)
    \/ \E h \in DOMAIN handlers : LockApply(h)
    \/ \E h \in DOMAIN handlers : HttpReinitCall(h)
    \/ \E h \in DOMAIN handlers : ReinitReturn(h, TRUE)

SpecHttpWatch == InitHttpWatch /\ [][NextHttpWatch]_vars

\* ------------------------------------------------- Run with discovery events

\* the events the broker delivers while Run executes: one that sets the
\* options, one that adds an endpoint
RunEvents ==
    {ev \in Events :
        \/ ev.type = "setenv" /\ ev.key = "options" /\ ev.value = "v1"
        \/ ev.type = "update" /\ ev.ep = [id |-> "e1", addr |-> "a1", weight |-> 1]}

\* two discovery-bound clients were registered, one service was set up and a
\* cluster was joined; Run has not been called
InitRunWatch ==
    /\ manifest = << [kind |-> "discovery", ref |-> "valid"],
                     [kind |-> "discovery", ref |-> "valid"] >>
    /\ cInit = << "none", "none" >>
    /\ cInitCount = << 0, 0 >>
    /\ clients = << >>
    /\ services = << [report |-> FALSE] >>
    /\ cluster = TheCluster
    /\ panicVal = Nil
    /\ pc = "idle"
    /\ idx = 0
    /\ ret = NoErr
    /\ shutdownDeferred = FALSE
    /\ callerDone = FALSE
    /\ runDone = FALSE
    /\ innerDone = FALSE
    /\ cancelAt = "never"
    /\ signalClosed = FALSE
    /\ wg = 0
    /\ task = << "none" >>
    /\ sInit = << "none" >>
    /\ sInitCount = << 0 >>
    /\ sRunCount = << 0 >>
    /\ shutLog = << >>
    /\ reporter = << FALSE >>
    /\ keepalives = << 0 >>
    /\ closes = << 0 >>
    /\ watching = {}
    /\ watchers = << >>
    /\ store = EmptyStore
    /\ handlers = << >>
    /\ http = NewHttp("loadstore")
    /\ sCalls = [j \in DOMAIN services |-> CountedCalls(j)]

NextRunWatch ==
    \/ RunCall
    \/ \E brokerOk \in BOOLEAN : ClientInitCall(brokerOk)
    \/ \E ok \in BOOLEAN : ClientInitReturn(ok)
    \/ InitDone
    \/ ServiceInitCall
    \/ \E ok \in BOOLEAN : ServiceInitReturn(ok)
    \/ Gogo
    \/ Wait
    \/ CancelInner
    \/ ClientShutdown
    \/ TeardownDone
    \/ RunReturn
    \/ \E j \in DOMAIN task : TaskSelect(j)
    \/ \E j \in DOMAIN task : TaskRun(j)
    \/ \E j \in DOMAIN task : TaskRunReturn(j)
    \/ \E j \in DOMAIN task : TaskExit(j)
    \/ \E w \in DOMAIN watchers, ev \in RunEvents : Deliver(w, ev)
    \/ \E h \in DOMAIN handlers : LockApply(h)
    \/ \E h \in DOMAIN handlers : ReinitCall(h)
    \/ \E h \in DOMAIN handlers, ok \in BOOLEAN : ReinitReturn(h, ok)

SpecRunWatch == InitRunWatch /\ [][NextRunWatch]_vars

\* -------------------------------------------------------------- repeated Run

\* variant: Run starts from an empty client list
ClientsReset(cs) == << >>
\* vol.clients when Run is called again: nothing resets it, init appends to it
ClientsKept(cs) == cs

\* the number of Run calls that have entered init
RunsStarted == cInitCount[1]

\* Voltron.Run is called again on the same Voltron after the previous call has
\* returned and its tasks have exited, with a fresh context: up to the call of
\* vol.init. The contexts, the signal channel, the WaitGroup, err and the
\* deferred functions belong to the new call.
RunAgain ==
    /\ pc = "done"
    /\ \A j \in DOMAIN task : task[j] \in {"none", "exited"}
    /\ RunsStarted < MaxRuns
    /\ clients' = ClientsKept(clients)
    /\ IF ClusterMissing
       THEN /\ ret' = ErrInvalidCluster
            /\ pc' = "done"
            /\ UNCHANGED idx
       ELSE /\ pc' = "init"
            /\ idx' = 1
            /\ ret' = NoErr
    /\ shutdownDeferred' = FALSE
    /\ callerDone' = FALSE
    /\ runDone' = FALSE
    /\ innerDone' = FALSE
    /\ cancelAt' = "never"
    /\ signalClosed' = FALSE
    /\ wg' = 0
    /\ task' = [j \in DOMAIN task |-> "none"]
    /\ cInit' = [i \in DOMAIN cInit |-> "none"]
    /\ sInit' = [j \in DOMAIN sInit |-> "none"]
    /\ shutLog' = << >>
    /\ UNCHANGED << manifest, cInitCount, services, sInitCount, sRunCount,
                    reporter, keepalives, closes, cluster, panicVal, watching,
                    watchers, store, handlers, http, sCalls >>

\* a discovery-bound and a static client were registered, one service was set
\* up and a cluster was joined; Run has not been called
InitRerun ==
    /\ manifest = << [kind |-> "discovery", ref |-> "valid"],
                     [kind |-> "static", ref |-> "valid"] >>
    /\ cInit = << "none", "none" >>
    /\ cInitCount = << 0, 0 >>
    /\ clients = << >>
    /\ services = << [report |-> FALSE] >>
    /\ cluster = TheCluster
    /\ panicVal = Nil
    /\ pc = "idle"
    /\ idx = 0
    /\ ret = NoErr
    /\ shutdownDeferred = FALSE
    /\ callerDone = FALSE
    /\ runDone = FALSE
    /\ innerDone = FALSE
    /\ cancelAt = "never"
    /\ signalClosed = FALSE
    /\ wg = 0
    /\ task = << "none" >>
    /\ sInit = << "none" >>
    /\ sInitCount = << 0 >>
    /\ sRunCount = << 0 >>
    /\ shutLog = << >>
    /\ reporter = << FALSE >>
    /\ keepalives = << 0 >>
    /\ closes = << 0 >>
    /\ watching = {}
    /\ watchers = << >>
    /\ store = EmptyStore
    /\ handlers = << >>
    /\ http = NewHttp("loadstore")
    /\ sCalls = [j \in DOMAIN services |-> CountedCalls(j)]

\* the event the broker delivers to the watchers: one that adds an endpoint
RerunEvents == {ev \in RunEvents : ev.type = "update"}

\* Runs in which the broker is created and every client's Init returns nil,
\* i.e. Runs that pass the initialize phase
NextRerun ==
    \/ RunCall
    \/ RunAgain
    \/ ClientInitCall(TRUE)
    \/ ClientInitReturn(TRUE)
    \/ InitDone
    \/ ServiceInitCall
    \/ \E ok \in BOOLEAN : ServiceInitReturn(ok)
    \/ Gogo
    \/ Wait
    \/ CancelInner
    \/ ClientShutdown
    \/ TeardownDone
    \/ RunReturn
    \/ \E j \in DOMAIN task : TaskSelect(j)
    \/ \E j \in DOMAIN task : TaskRun(j)
    \/ \E j \in DOMAIN task : TaskRunReturn(j)
    \/ \E j \in DOMAIN task : TaskExit(j)
    \/ \E w \in DOMAIN watchers, ev \in RerunEvents : Deliver(w, ev)
    \/ \E h \in DOMAIN handlers : LockApply(h)
    \/ \E h \in DOMAIN handlers : ReinitCall(h)
    \/ \E h \in DOMAIN handlers : ReinitReturn(h, TRUE)

SpecRerun == InitRerun /\ [][NextRerun]_vars

\* ------------------------------------------------ built-in HTTP client, calls

\* every variable but http
progVars == << manifest, clients, services, cluster, panicVal, pc, idx, ret,
               shutdownDeferred, callerDone, runDone, innerDone, cancelAt,
               signalClosed, wg, task, cInit, cInitCount, sInit, sInitCount,
               sRunCount, shutLog, reporter, keepalives, closes, watching,
               watchers, store, handlers, sCalls >>

\* the voltron.ClientOptions handed to Init and ReInit: a *ClientOptions with
\* its Scheme/Host and Endpoints, or a value of another type
HttpOpts ==
    {[valid |-> TRUE, conf |-> "o1", endpoints |-> << "a1" >>],
     [valid |-> TRUE, conf |-> "o2", endpoints |-> << "a2" >>],
     NoOpts}

\* a method of the client is called on a goroutine of its own
HttpCall(op, opts) ==
    /\ Len(http.calls) < MaxCalls
    /\ op \in {"init", "reinit"} \/ opts = NoOpts
    /\ http' = [http EXCEPT !.calls =
          Append(@, [op |-> op, opts |-> opts, pc |-> "start", result |-> "none"])]
    /\ UNCHANGED progVars

\* the call returns: its record keeps the method and the result
HttpReturn(cr, result) ==
    [op |-> cr.op, opts |-> NoOpts, pc |-> "done", result |-> result]

\* Client.Init, one step of call c. With ready.Load()/Store(): the test of
\* the flag, the type assertion, the assignments, the deferred Store(true).
\* With CompareAndSwap: the type assertion, the swap, the assignments.
HttpInit(c) ==
    /\ c \in DOMAIN http.calls
    /\ http.calls[c].op = "init"
    /\ LET cr == http.calls[c]
           goto(h, to) == [h EXCEPT !.calls[c].pc = to]
           return(h, r) == [h EXCEPT !.calls[c] = HttpReturn(cr, r)]
       IN IF http.impl = "loadstore"
          THEN \/ /\ cr.pc = "start"
                  /\ http' = IF http.ready THEN return(http, "nil")
                             ELSE goto(http, "assert")
               \/ /\ cr.pc = "assert"
                  /\ http' = IF cr.opts.valid THEN goto(http, "assign")
                             ELSE return(http, "err")
               \/ /\ cr.pc = "assign"
                  /\ http' = goto(HttpAssign(http, cr.opts), "store")
               \/ /\ cr.pc = "store"
                  /\ http' = return([http EXCEPT !.ready = TRUE], "nil")
          ELSE \/ /\ cr.pc = "start"
                  /\ http' = IF cr.opts.valid THEN goto(http, "cas")
                             ELSE return(http, "err")
               \/ /\ cr.pc = "cas"
                  /\ http' = IF http.ready THEN return(http, "nil")
                             ELSE goto([http EXCEPT !.ready = TRUE], "assign")
               \/ /\ cr.pc = "assign"
                  /\ http' = return(HttpAssign(http, cr.opts), "nil")
    /\ UNCHANGED progVars

\* Client.Shutdown, one step of call c. With ready.Load()/Store(): the test
\* of the flag, then the deferred Store(false). With CompareAndSwap: the swap.
HttpShutdown(c) ==
    /\ c \in DOMAIN http.calls
    /\ http.calls[c].op = "shutdown"
    /\ LET cr == http.calls[c]
           return(h) == [h EXCEPT !.calls[c] = HttpReturn(cr, "nil")]
           clear(h) == [h EXCEPT !.ready = FALSE,
                                 !.shuts = IF h.ready THEN @ + 1 ELSE @]
       IN IF http.impl = "loadstore"
          THEN \/ /\ cr.pc = "start"
                  /\ http' = IF http.ready
                             THEN [http EXCEPT !.calls[c].pc = "store"]
                             ELSE return(http)
               \/ /\ cr.pc = "store"
                  /\ http' = return(clear(http))
          ELSE /\ cr.pc = "start"
               /\ http' = return(clear(http))
    /\ UNCHANGED progVars

\* Get / Post / Put / Patch / Delete, one step of call c: the test of the
\* flag, then the request through c.client with the URL from buildUrl
HttpGet(c) ==
    /\ c \in DOMAIN http.calls
    /\ http.calls[c].op = "get"
    /\ LET cr == http.calls[c]
       IN \/ /\ cr.pc = "start"
             /\ http' = IF http.ready
                        THEN [http EXCEPT !.calls[c].pc = "request"]
                        ELSE [http EXCEPT !.calls[c] =
                                 HttpReturn(cr, "ErrClientNotReady")]
          \/ /\ cr.pc = "request"
             /\ http' = [http EXCEPT !.calls[c] = HttpReturn(cr,
                   IF http.transport /\ (http.impl = "cas" => http.balancer)
                   THEN "response" ELSE "nil dereference")]
    /\ UNCHANGED progVars

\* Client.ReInit, called directly
HttpReInit(c) ==
    /\ c \in DOMAIN http.calls
    /\ http.calls[c].op = "reinit"
    /\ http.calls[c].pc = "start"
    /\ http' = [HttpReInitEffect(http, http.calls[c].opts) EXCEPT
                   !.calls[c] = HttpReturn(http.calls[c], "nil")]
    /\ UNCHANGED progVars

\* a zero Client of either implementation in a program that has done nothing else
InitHttp ==
    /\ manifest = << >>
    /\ clients = << >>
    /\ services = << >>
    /\ cluster = Nil
    /\ panicVal = Nil
    /\ pc = "idle"
    /\ idx = 0
    /\ ret = NoErr
    /\ shutdownDeferred = FALSE
    /\ callerDone = FALSE
    /\ runDone = FALSE
    /\ innerDone = FALSE
    /\ cancelAt = "never"
    /\ signalClosed = FALSE
    /\ wg = 0
    /\ task = << >>
    /\ cInit = << >>
    /\ cInitCount = << >>
    /\ sInit = << >>
    /\ sInitCount = << >>
    /\ sRunCount = << >>
    /\ shutLog = << >>
    /\ reporter = << >>
    /\ keepalives = << >>
    /\ closes = << >>
    /\ watching = {}
    /\ watchers = << >>
    /\ store = EmptyStore
    /\ handlers = << >>
    /\ \E impl \in HttpImpls : http = NewHttp(impl)
    /\ sCalls = << >>

NextHttp ==
    \/ \E op \in {"init", "reinit", "shutdown", "get"}, opts \in HttpOpts :
          HttpCall(op, opts)
    \/ \E c \in 1..MaxCalls : HttpInit(c)
    \/ \E c \in 1..MaxCalls : HttpShutdown(c)
    \/ \E c \in 1..MaxCalls : HttpGet(c)
    \/ \E c \in 1..MaxCalls : HttpReInit(c)

SpecHttp == InitHttp /\ [][NextHttp]_vars

\* ------------------------------------------------------------------- claims

Identity(n) == [k \in 1..n |-> k]
TaskOver(j) == task[j] \in {"none", "exited"}
Invoked(j) == sRunCount[j] > 0

\* C1: start barrier. No service implementation's Run has been invoked unless
\* the Init of every registered service has returned successfully.
C1_StartBarrier ==
    \A j \in DOMAIN services :
        Invoked(j) => \A k \in DOMAIN services : sInit[k] = "ok"

\* C1 witness: of two services the first is already running (its Init returned
\* before the second's was even called) and the second's Init has succeeded.
C1_Witness ==
    /\ Len(services) >= 2
    /\ task[1] = "running"
    /\ sInit[2] = "ok"

\* C2: every registered client's Init is invoked at most once, exactly once in a
\* Run that returns nil, and all client Inits have returned successfully before
\* any service's Init or Run is invoked.
C2_ClientsBeforeServices ==
    /\ \A i \in DOMAIN manifest : cInitCount[i] <= 1
    /\ (\E j \in DOMAIN services : sInitCount[j] > 0 \/ Invoked(j))
          => \A i \in DOMAIN manifest : cInitCount[i] = 1 /\ cInit[i] = "ok"
    /\ (pc = "done" /\ ret = NoErr)
          => \A i \in DOMAIN manifest : cInitCount[i] = 1 /\ cInit[i] = "ok"

\* C2 witness: a finished successful Run with two clients and a service that ran.
C2_Witness ==
    /\ pc = "done"
    /\ ret = NoErr
    /\ Len(manifest) >= 2
    /\ \E j \in DOMAIN services : Invoked(j)

\* C3: while no cluster is bound (Join(nil) panics and binds nothing), a Run that
\* has been called has returned ErrInvalidCluster and no client Init or
\* Shutdown and no service Init or Run has been invoked.
C3_NoClusterNoLifecycle ==
    (cluster = Nil /\ pc # "idle") =>
        /\ pc = "done"
        /\ ret = ErrInvalidCluster
        /\ \A i \in DOMAIN manifest : cInitCount[i] = 0 /\ cInit[i] = "none"
        /\ \A j \in DOMAIN services : sInitCount[j] = 0 /\ ~Invoked(j)
        /\ shutLog = << >>
        /\ clients = << >>

\* C3 witness: Join(nil) panicked, clients and services are registered, and Run
\* has returned.
C3_Witness ==
    /\ cluster = Nil
    /\ panicVal = PanicInvalidCluster
    /\ pc = "done"
    /\ Len(manifest) >= 1
    /\ Len(services) >= 1

\* C4: if the i-th client's Init, or the broker creation of the i-th
\* (discovery-bound) client, returned an error, Run is returning exactly that
\* error, no later client's Init was invoked, no service's Init or Run was
\* invoked and the start barrier is not released.
C4_ClientInitFailureAborts ==
    \A i \in DOMAIN manifest :
        cInit[i] \in {"err", "nobroker"} =>
            /\ ret = (IF cInit[i] = "err" THEN ErrClientInit(i) ELSE ErrNewBroker(i))
            /\ pc \in {"return", "done"}
            /\ \A k \in DOMAIN manifest : k > i => cInitCount[k] = 0
            /\ \A j \in DOMAIN services : sInitCount[j] = 0 /\ ~Invoked(j)
            /\ \A j \in DOMAIN services : task[j] = "none"
            /\ ~signalClosed

\* C4 witness: the first of two clients failed its Init, a service is set up,
\* and Run has returned.
C4_Witness ==
    /\ Len(manifest) >= 2
    /\ cInit[1] = "err"
    /\ Len(services) >= 1
    /\ pc = "done"

\* C5: if the j-th service's Init returned an error, Run is returning that
\* error, no later service's Init was invoked, the start barrier is not
\* released, and no service's task has passed the barrier or invoked Run.
C5_ServiceInitFailureAborts ==
    \A j \in DOMAIN services :
        sInit[j] = "err" =>
            /\ ret = ErrServiceInit(j)
            /\ pc \in {"cancel", "teardown", "return", "done"}
            /\ \A k \in DOMAIN services : k > j => sInitCount[k] = 0
            /\ ~signalClosed
            /\ \A k \in DOMAIN services :
                   ~Invoked(k) /\ task[k] \notin {"go", "kept", "running", "ran"}

\* C5 witness: the second service failed its Init after the first one's task
\* was launched; that task has exited and Run has returned.
C5_Witness ==
    /\ Len(services) >= 2
    /\ sInit[2] = "err"
    /\ task[1] = "exited"
    /\ pc = "done"

\* C6: whenever Run has returned after passing the cluster check, Shutdown has
\* been called on every client record that Run initialized.
C6_TeardownOnEveryExit ==
    (pc = "done" /\ ret # ErrInvalidCluster) =>
        \A i \in DOMAIN manifest :
            cInit[i] = "ok" => \E k \in DOMAIN shutLog : shutLog[k] = i

\* C7: Shutdown is only ever called on the clients in registration order, each
\* at most once, and once a Run that completed its wait phase has finished its
\* teardown every registered client has been shut down exactly once.
C7_ShutdownOnceInOrder ==
    /\ Len(shutLog) <= Len(manifest)
    /\ \A k \in DOMAIN shutLog : shutLog[k] = k
    /\ (signalClosed /\ pc \in {"return", "done"})
          => shutLog = Identity(Len(manifest))

\* C7 witness: a Run with two clients released the barrier, waited, and has
\* shut both clients down.
C7_Witness ==
    /\ Len(manifest) >= 2
    /\ signalClosed
    /\ pc = "done"
    /\ Len(shutLog) = Len(manifest)

\* C8: no client's Shutdown has been invoked while a service task launched by
\* Prepare has not yet completed.
C8_TasksDoneBeforeShutdown ==
    shutLog # << >> => \A j \in DOMAIN services : TaskOver(j)

\* C9: Run has returned to its caller only if every service task that Prepare
\* launched has completed.
C9_ReturnAfterTasks ==
    pc = "done" => \A j \in DOMAIN services : TaskOver(j)

\* C10: if the tasks' context was cancelled before the start barrier was
\* released, no service's Run is ever invoked.
C10_CancelBeforeBarrierNoRun ==
    cancelAt = "before" => \A j \in DOMAIN services : ~Invoked(j)

\* the invocations of a callback of watcher w that are inside ReInit
InReinit(w) == {h \in DOMAIN handlers : handlers[h].w = w /\ handlers[h].pc = "reinit"}

\* C11: for one discovery watcher and any interleaving of concurrently delivered
\* callbacks, at most one call of the implementation's ReInit is in flight.
C11_OneReinitInFlight ==
    \A w \in DOMAIN watchers : Cardinality(InReinit(w)) <= 1

\* C11 witness: one callback is inside ReInit while another callback of the
\* same watcher, delivered concurrently, waits for w.mu.Lock().
C11_Witness ==
    \E h1, h2 \in DOMAIN handlers :
        /\ handlers[h1].w = handlers[h2].w
        /\ handlers[h1].pc = "reinit"
        /\ handlers[h2].pc = "wantlock"

\* C12: every configuration passed to ReInit is built from the raw-config and the
\* whole endpoint directory the watcher holds at one instant, the state right
\* after the triggering event's mutation, which is still the watcher's state
\* while ReInit runs.
C12_ReinitFromOneState ==
    \A h \in DOMAIN handlers :
        handlers[h].pc = "reinit" =>
            /\ handlers[h].args.options = handlers[h].post.options
            /\ handlers[h].args.endpoints = EndpointList(handlers[h].post.endpoints)
            /\ handlers[h].post = StateOf(handlers[h].w)

\* C12 witness: ReInit runs for an options event with the new raw-config and a
\* directory of two endpoints, while an endpoint event delivered concurrently
\* waits for the lock.
C12_Witness ==
    \E h1, h2 \in DOMAIN handlers :
        /\ handlers[h1].pc = "reinit" /\ handlers[h1].ev.type = "setenv"
        /\ handlers[h1].args.options = "v2"
        /\ Cardinality(handlers[h1].args.endpoints) = 2
        /\ handlers[h2].pc = "wantlock" /\ handlers[h2].ev.type = "update"

\* C13: under any interleaving of concurrently delivered endpoint callbacks,
\* ReInit is invoked only by an event that changes the endpoint directory at
\* the moment it is applied.
C13_ReinitOnlyOnChange ==
    \A h \in DOMAIN handlers :
        (handlers[h].pc = "reinit" /\ handlers[h].ev.type \in {"update", "delete"})
            => handlers[h].post.endpoints # handlers[h].pre.endpoints

\* the record appended by the callback invocation delivered in this step
Delivered == handlers'[Len(handlers')]

\* C14: OnUpdateEndpoint with an endpoint whose ID is cached with the same
\* address and weight returns without calling ReInit and leaves the directory
\* and the raw-config unchanged, so that delivering one endpoint twice in a row
\* causes at most one ReInit.
C14_SameEndpointNoop ==
    [][\A w \in DOMAIN watchers, ev \in UpdateEvents :
          (/\ Deliver(w, ev)
           /\ ev.ep.id \in DOMAIN watchers[w].endpoints
           /\ watchers[w].endpoints[ev.ep.id] = ev.ep)
              => /\ Delivered.pc = "done"
                 /\ Delivered.outcome = "noop"
                 /\ Delivered.calls = 0
                 /\ watchers' = watchers]_vars

\* C14 witness: an update changed the directory and called ReInit, and the next
\* update delivered was dropped as redundant.
C14_Witness ==
    /\ Len(handlers) = 2
    /\ handlers[1].ev.type = "update" /\ handlers[1].outcome = "applied"
    /\ handlers[2].ev.type = "update" /\ handlers[2].outcome = "noop"
    /\ handlers[2].calls = 0

\* what OnUpdateEndpoint has done when its ReInit is in flight: directory[ID] is
\* the new endpoint, every other entry and the raw-config are as before, ReInit
\* was called once, with the raw-config and the whole updated directory
C15_Effect ==
    \A h \in DOMAIN handlers :
        (handlers[h].pc = "reinit" /\ handlers[h].ev.type = "update") =>
            LET hr == handlers[h]
                id == hr.ev.ep.id
            IN /\ DOMAIN hr.post.endpoints = DOMAIN hr.pre.endpoints \cup {id}
               /\ hr.post.endpoints[id] = hr.ev.ep
               /\ \A k \in DOMAIN hr.pre.endpoints \ {id} :
                      hr.post.endpoints[k] = hr.pre.endpoints[k]
               /\ hr.post.options = hr.pre.options
               /\ hr.calls = 1
               /\ hr.args.options = hr.post.options
               /\ hr.args.endpoints =
                      {hr.post.endpoints[k] : k \in DOMAIN hr.post.endpoints}

\* OnUpdateEndpoint goes on to w.mu.Lock() when the ID is absent or cached with
\* another address or weight
C15_Proceeds ==
    \A w \in DOMAIN watchers, ev \in UpdateEvents :
        (/\ Deliver(w, ev)
         /\ \/ ev.ep.id \notin DOMAIN watchers[w].endpoints
            \/ watchers[w].endpoints[ev.ep.id].addr # ev.ep.addr
            \/ watchers[w].endpoints[ev.ep.id].weight # ev.ep.weight)
            => Delivered.pc = "wantlock"

\* every callback invocation that returns has called ReInit once if it got past
\* its test and never otherwise, and none calls it twice
CallsOnce ==
    \A h \in DOMAIN handlers :
        /\ handlers[h].calls <= 1
        /\ handlers[h].pc = "done" =>
              (handlers[h].calls = 1 <=> handlers[h].outcome \in {"applied", "failed"})

\* C15: OnUpdateEndpoint with an endpoint whose ID is absent from the directory,
\* or cached with a different address or weight, sets directory[ID] to the new
\* endpoint, leaves every other entry and the raw-config unchanged, and calls
\* ReInit exactly once with a configuration built from the whole updated
\* directory.
C15_UpsertReinit == [](C15_Effect /\ CallsOnce) /\ [][C15_Proceeds]_vars

\* C15 witness: the example of the claim. The directory was empty, an update
\* was delivered, and its ReInit is in flight with the one-entry directory.
C15_Witness ==
    \E h \in DOMAIN handlers :
        /\ handlers[h].pc = "reinit" /\ handlers[h].ev.type = "update"
        /\ handlers[h].pre.endpoints = EmptyDirectory
        /\ handlers[h].args.endpoints = {handlers[h].ev.ep}

\* what OnDeleteEndpoint has done when its ReInit is in flight: the entry id is
\* gone, every other entry and the raw-config are as before, ReInit was called
\* once
C16_Effect ==
    \A h \in DOMAIN handlers :
        (handlers[h].pc = "reinit" /\ handlers[h].ev.type = "delete") =>
            LET hr == handlers[h]
                id == hr.ev.ep.id
            IN /\ DOMAIN hr.post.endpoints = DOMAIN hr.pre.endpoints \ {id}
               /\ \A k \in DOMAIN hr.post.endpoints :
                      hr.post.endpoints[k] = hr.pre.endpoints[k]
               /\ hr.post.options = hr.pre.options
               /\ hr.calls = 1

\* OnDeleteEndpoint goes on to w.mu.Lock() when id is in the directory, and
\* returns without an effect when it is not
C16_Test ==
    \A w \in DOMAIN watchers, ev \in DeleteEvents :
        Deliver(w, ev) =>
            IF ev.ep.id \in DOMAIN watchers[w].endpoints
            THEN Delivered.pc = "wantlock"
            ELSE /\ Delivered.pc = "done"
                 /\ Delivered.outcome = "noop"
                 /\ Delivered.calls = 0
                 /\ watchers' = watchers

\* C16: OnDeleteEndpoint(id) removes exactly the entry id and calls ReInit
\* exactly once when id is in the directory; when id is not in the directory it
\* leaves the directory and the raw-config unchanged and calls no ReInit.
C16_DeleteExactlyId == [](C16_Effect /\ CallsOnce) /\ [][C16_Test]_vars

\* C16 witness: of two cached entries a delete removed one and kept the other
\* and its ReInit returned; the ReInit of a second delete, which removed the
\* other entry, is in flight.
C16_Witness ==
    /\ Len(handlers) = 2
    /\ handlers[1].ev.type = "delete" /\ handlers[1].outcome = "applied"
    /\ handlers[2].pc = "reinit" /\ handlers[2].ev.type = "delete"
    /\ Cardinality(DOMAIN handlers[2].pre.endpoints) = 1
    /\ handlers[2].post.endpoints = EmptyDirectory
    /\ Len(store.endpoints) = 2

\* what OnSetenv and OnDelenv have done when their ReInit is in flight: the
\* raw-config is the event's value, resp. empty, the directory is as before,
\* ReInit was called once
C17_Effect ==
    \A h \in DOMAIN handlers :
        (handlers[h].pc = "reinit" /\ handlers[h].ev.type \in {"setenv", "delenv"}) =>
            LET hr == handlers[h]
            IN /\ hr.ev.key = "options"
               /\ hr.post.options = IF hr.ev.type = "setenv" THEN hr.ev.value ELSE ""
               /\ hr.post.endpoints = hr.pre.endpoints
               /\ hr.calls = 1

\* OnSetenv and OnDelenv go on to w.mu.Lock() when the key is "options", and
\* return without an effect for any other key
C17_Test ==
    \A w \in DOMAIN watchers, ev \in SetenvEvents \cup DelenvEvents :
        Deliver(w, ev) =>
            IF ev.key = "options"
            THEN Delivered.pc = "wantlock"
            ELSE /\ Delivered.pc = "done"
                 /\ Delivered.outcome = "ignored"
                 /\ Delivered.calls = 0
                 /\ watchers' = watchers

\* C17: OnSetenv("options", v) replaces the raw-config with v and
\* OnDelenv("options") clears it, each leaving the directory unchanged and
\* calling ReInit exactly once; with any other key they leave raw-config and
\* directory unchanged and call no ReInit.
C17_OptionsKeyOnly == [](C17_Effect /\ CallsOnce) /\ [][C17_Test]_vars

\* C17 witness: an event with another key was ignored, and the ReInit of an
\* OnDelenv("options") that cleared a non-empty raw-config is in flight.
C17_Witness ==
    \E h, g \in DOMAIN handlers :
        /\ handlers[g].ev.type = "setenv" /\ handlers[g].outcome = "ignored"
        /\ handlers[h].pc = "reinit" /\ handlers[h].ev.type = "delenv"
        /\ handlers[h].pre.options # "" /\ handlers[h].post.options = ""

\* the implementation's Init of the client of watcher w has returned
InitReturned(w) == cInit[watchers[w].client] \in {"ok", "err"}

\* the DiscoveryState discoveryWatcher.Init gave watcher w
InitialState(w) ==
    [options |-> watchers[w].initArgs.options,
     endpoints |-> DirectoryOf(watchers[w].initArgs.endpoints)]

\* C18: a discovery watcher is registered as the broker's observer only after
\* the implementation's Init has returned; before that no callback of the
\* watcher has run, its DiscoveryState is the one Init read from the broker and
\* no ReInit has been invoked for it.
C18_WatchAfterInit ==
    \A w \in DOMAIN watchers :
        ~InitReturned(w) =>
            /\ w \notin watching
            /\ \A h \in DOMAIN handlers : handlers[h].w # w
            /\ StateOf(w) = InitialState(w)
            /\ watchers[w].writer = 0

\* C18 witness: the second client's Init has been called and has not returned,
\* its watcher exists and is not registered, while the first client's watcher
\* is registered and a ReInit caused by an event is in flight for it.
C18_Witness ==
    /\ Len(watchers) = 2
    /\ cInit[2] = "pending"
    /\ watching = {1}
    /\ \E h \in DOMAIN handlers : handlers[h].w = 1 /\ handlers[h].pc = "reinit"

\* the step in which the ReInit called by invocation h returns an error
ReinitFails(h) ==
    /\ h \in DOMAIN handlers
    /\ handlers[h].pc = "reinit"
    /\ handlers'[h].pc = "done"
    /\ handlers'[h].outcome = "failed"

\* C19: when ReInit returns an error the watcher keeps the DiscoveryState the
\* event committed, the callback returns without calling ReInit again, Run is
\* not affected (its position, its result, the service tasks and the
\* registered watchers are as before), and the lock is released so that later
\* events are processed.
C19_ReinitErrorDropped ==
    [](CallsOnce) /\
    [][\A h \in DOMAIN handlers :
          ReinitFails(h) =>
              LET w == handlers[h].w
              IN /\ watchers'[w].options = handlers[h].post.options
                 /\ watchers'[w].endpoints = handlers[h].post.endpoints
                 /\ handlers'[h].calls = 1
                 /\ watchers'[w].writer = 0
                 /\ pc' = pc /\ ret' = ret /\ task' = task /\ wg' = wg
                 /\ watching' = watching /\ ctxVars' = ctxVars]_vars

\* C19 witness: Run is waiting for its running service, the ReInit of the
\* first event failed, and the next event was applied and its ReInit returned
\* nil.
C19_Witness ==
    /\ pc = "wait" /\ ret = NoErr
    /\ Len(handlers) = 2
    /\ handlers[1].w = handlers[2].w
    /\ handlers[1].outcome = "failed"
    /\ handlers[2].outcome = "applied"
    /\ StateOf(handlers[1].w) # InitialState(handlers[1].w)

\* every record of the manifest was registered with a non-nil pointer
OnlyValidRefs == \A i \in DOMAIN manifest : manifest[i].ref = "valid"

\* a step leaves the manifest as it is or appends one record at its end
AppendOnly ==
    /\ Len(manifest') \in {Len(manifest), Len(manifest) + 1}
    /\ SubSeq(manifest', 1, Len(manifest)) = manifest

\* a step in which ClientVarP panics leaves the manifest unchanged
PanicKeepsManifest ==
    (panicVal' = PanicInvalidRef /\ panicVal # PanicInvalidRef)
        => manifest' = manifest

C21_KeepaliveRunClose ==
    \A j \in DOMAIN services :
        /\ keepalives[j] <= 1 /\ closes[j] <= 1
        /\ IF services[j].report
           THEN /\ Invoked(j) => keepalives[j] = 1
                /\ keepalives[j] = 1 => signalClosed
                /\ (Invoked(j) /\ task[j] = "exited") => closes[j] = 1
                /\ closes[j] = 1 => (Invoked(j) /\ task[j] = "exited")
           ELSE keepalives[j] = 0 /\ closes[j] = 0

\* C21 witness: of two services, the one with a reporting configuration has
\* run and exited with one Keepalive and one Close, the one without has run and
\* exited with none.
C21_Witness ==
    \E j, k \in DOMAIN services :
        /\ services[j].report /\ ~services[k].report
        /\ task[j] = "exited" /\ task[k] = "exited"
        /\ Invoked(j) /\ Invoked(k)
        /\ keepalives[j] = 1 /\ closes[j] = 1
        /\ keepalives[k] = 0 /\ closes[k] = 0

\* C22: when Run has returned and every task has exited, every reporter that
\* run acquired for a service has been closed.
C22_ReporterClosedOnExit ==
    (pc = "done" /\ \A j \in DOMAIN services : TaskOver(j))
        => \A j \in DOMAIN services : reporter[j] => closes[j] >= 1

\* C23: no discovery event delivered after the orchestrator has called
\* Shutdown on a discovery-bound client mutates that client's DiscoveryState
\* or invokes the implementation's ReInit.
C23_NoEventAfterShutdown ==
    \A h \in DOMAIN handlers :
        handlers[h].late =>
            /\ handlers[h].pc \notin {"locked", "reinit"}
            /\ handlers[h].calls = 0

\* every call of a method of the HTTP client has returned
HttpQuiet == \A c \in DOMAIN http.calls : http.calls[c].pc = "done"

\* C24: the readiness flag makes Init and Shutdown idempotent under concurrent
\* calls: between two effective Shutdowns at most one Init call performs the
\* initialization, and once all calls have returned the client is ready iff
\* the last effective call was an Init.
C24_ReadyFlagIdempotent ==
    /\ http.inits <= http.shuts + 1
    /\ HttpQuiet => (http.ready <=> http.inits = http.shuts + 1)

\* a cluster was joined and every client's and every service's Init succeeded
InitsSucceeded ==
    /\ cluster # Nil
    /\ \A i \in DOMAIN manifest : cInit[i] = "ok"
    /\ \A j \in DOMAIN services : sInit[j] = "ok"

\* C25: under fair scheduling, and with every service implementation's Run
\* returning, a Run that was called returns, with nil if a cluster was joined
\* and every Init succeeded; and after a Prepare failure every task that was
\* launched exits.
C25_Termination ==
    /\ (pc # "idle") ~> (pc = "done" /\ (InitsSucceeded => ret = NoErr))
    /\ (\E j \in DOMAIN services : sInit[j] = "err")
          ~> (\A j \in DOMAIN services : TaskOver(j))

\* C25 witness: Run has returned nil after two services ran and exited.
C25_Witness ==
    /\ pc = "done" /\ ret = NoErr
    /\ Len(services) = 2
    /\ \A j \in DOMAIN services : Invoked(j) /\ task[j] = "exited"

\* C26: in every state of a discovery watcher each directory key is the ID of
\* the endpoint stored under it, and the endpoint list passed to ReInit has
\* pairwise distinct IDs.
C26_DirectoryKeyedById ==
    /\ \A w \in DOMAIN watchers :
          \A k \in DOMAIN watchers[w].endpoints :
              watchers[w].endpoints[k].id = k
    /\ \A h \in DOMAIN handlers :
          handlers[h].pc = "reinit" =>
              \A e1, e2 \in handlers[h].args.endpoints :
                  e1.id = e2.id => e1 = e2

\* C26 witness: the broker's snapshot listed one ID twice, an update added a
\* second ID, and its ReInit is in flight with one endpoint per ID.
C26_Witness ==
    /\ Len(store.endpoints) = 2
    /\ store.endpoints[1].id = store.endpoints[2].id
    /\ store.endpoints[1] # store.endpoints[2]
    /\ \E h \in DOMAIN handlers :
          /\ handlers[h].pc = "reinit"
          /\ handlers[h].ev.type = "update"
          /\ Cardinality(handlers[h].args.endpoints) = 2

Occurrences(list, i) == Cardinality({k \in DOMAIN list : list[k] = i})

\* the watchers created for manifest record i
WatchersOf(i) == {w \in DOMAIN watchers : watchers[w].client = i}

\* the current Run has passed the initialize phase
PastInit == pc \in {"prepare", "sinit", "wait", "cancel", "teardown", "return", "done"}

C29_OnlyNameInitRun ==
    \A j \in DOMAIN sCalls :
        /\ "Shutdown" \notin sCalls[j]
        /\ sCalls[j] \subseteq {"Name", "Init", "Run"}
        /\ sCalls[j] = CountedCalls(j)

\* once the goroutine of a service has exited, or Prepare has failed on its
\* Init, no step invokes a method of that service
C29_LifecycleOver ==
    \A j \in DOMAIN sCalls :
        (TaskOver(j) /\ sInit[j] \in {"ok", "err"}) => sCalls'[j] = sCalls[j]

\* C29: on no path of Run does the orchestrator invoke a service
\* implementation's Shutdown; the only service methods Run calls are Name, Init
\* and Run, and a service's lifecycle ends when its Run returns or when its
\* waiting task exits on cancellation.
C29_NoServiceShutdown == [](C29_OnlyNameInitRun) /\ [][C29_LifecycleOver]_vars

\* C29 witness: Run has returned after its teardown shut a client down; one
\* service ran to completion with a reporter, the other one's task left the
\* select on cancellation, and neither was shut down.
C29_Witness ==
    /\ pc = "done"
    /\ Len(shutLog) > 0
    /\ Len(services) = 2
    /\ task = << "exited", "exited" >>
    /\ sCalls[1] = {"Name", "Init", "Run"}
    /\ sCalls[2] = {"Init"}

\* the fields of the HTTP client that Init assigns, and its ready flag
HttpFields(h) == << h.conf, h.endpoints, h.transport, h.balancer, h.ready >>

\* a step in which a watcher's reinit calls ReInit leaves those fields alone
C30_Frame ==
    (\E h \in DOMAIN handlers :
        handlers[h].pc = "locked" /\ handlers'[h].pc = "reinit")
    => HttpFields(http') = HttpFields(http)

\* whatever events were handled, the client holds what its first Init was given
C30_StillFirstInit ==
    /\ http.ready
    /\ http.conf = watchers[1].initArgs.options
    /\ http.endpoints = [i \in DOMAIN watchers[1].initArgs.endpoints |->
                            watchers[1].initArgs.endpoints[i].addr]

\* C30: the built-in HTTP client's ReInit changes nothing: a watcher-driven
\* ReInit call leaves scheme, host, endpoint set, balancer and ready flag as
\* they were, so after any sequence of discovery events the client still uses
\* the endpoint set given to its first Init.
C30_ReInitChangesNothing == [](C30_StillFirstInit) /\ [][C30_Frame]_vars

\* C30 witness: the ReInit of a callback that updated an endpoint has returned;
\* the watcher's directory holds an address that the client's endpoint set,
\* which is not empty, does not hold.
C30_Witness ==
    \E h \in DOMAIN handlers :
        /\ handlers[h].outcome = "applied"
        /\ handlers[h].ev.type = "update"
        /\ handlers[h].calls = 1
        /\ \E k \in DOMAIN watchers[1].endpoints :
              \A i \in DOMAIN http.endpoints :
                  http.endpoints[i] # watchers[1].endpoints[k].addr
        /\ Len(watchers[1].initArgs.endpoints) > 0

\* what Init assigns has been assigned: the transport c.client, the balancer
\* (in the implementation that has one) and the scheme/host/endpoint fields
HttpAssigned ==
    /\ http.transport
    /\ http.impl = "cas" => http.balancer
    /\ http.conf # "none"

\* C31: in every reachable state in which the ready flag of the built-in HTTP
\* client is set, the transport, the balancer and the scheme/host/endpoint
\* fields have been assigned, and no request method that ran concurrently with
\* Init has passed the readiness check and used an unassigned transport or
\* balancer.
C31_ReadyMeansAssigned ==
    /\ http.ready => HttpAssigned
    /\ \A c \in DOMAIN http.calls : http.calls[c].result # "nil dereference"

====
